---- MODULE Spec2Model ----
(***************************************************************************)
(* A model of icd (vespaiach/icd): the config loader and filename          *)
(* sanitizer (utils.ts), the icon descriptor IconInput with its URL        *)
(* builder, downloader, transformer and writer (IconInput.ts), and the CLI *)
(* driver (index.ts).                                                      *)
(*                                                                         *)
(* Strings are TLA+ strings; TLC evaluates Len, \o and SubSeq on them, so  *)
(* the text functions below work character by character as the code does. *)
(* An optional value (a JSON key that may be missing, a field that may be  *)
(* undefined) is <<>> when absent and <<v>> when present.                  *)
(***************************************************************************)
EXTENDS Integers, Sequences, FiniteSets, TLC

VARIABLES
    rawFilename,  \* santizeFilename: its argument
    sanitized,    \* santizeFilename: its return value, once it has run
    urlIcon,      \* buildUrl: the descriptor it is called on
    url,          \* buildUrl: its return value, once it has run
    config,       \* the parsed content of the input file
    verbose,      \* the --verbose flag
    pc,           \* where the run is: "load", "dispatch", "running", "failed"
    loaded,       \* the outcome of loadAndParseIconInputsFromFile, once it has run
    icons,        \* the descriptors (IconInput objects)
    tasks,        \* the calls made on descriptors, each with its position
    httpGets,     \* the URLs fetched so far, in order
    fs,           \* the files written: path -> content
    dirs,         \* the directories created by mkdir
    writes,       \* the number of writeFile calls completed
    console       \* what was printed: <<stream, message>> entries

sanVars == <<rawFilename, sanitized>>
urlVars == <<urlIcon, url>>
loadVars == <<config, verbose, pc, loaded>>
iconVars == <<icons, tasks, httpGets, fs, dirs, writes, console>>
vars == <<rawFilename, sanitized, urlIcon, url, config, verbose, pc, loaded,
          icons, tasks, httpGets, fs, dirs, writes, console>>

-----------------------------------------------------------------------------
(* Optional values *)

None == <<>>
Some(v) == <<v>>
IsSome(o) == o # <<>>
Get(o) == o[1]

\* JavaScript's `a || b` on optional strings: undefined and "" are both falsy.
Truthy(o) == IsSome(o) /\ Get(o) # ""

-----------------------------------------------------------------------------
(* Text *)

CharAt(s, i) == SubSeq(s, i, i)

Chars(s) == {CharAt(s, i) : i \in 1..Len(s)}

MatchesAt(s, pat, i) ==
    /\ i >= 1
    /\ i + Len(pat) - 1 <= Len(s)
    /\ SubSeq(s, i, i + Len(pat) - 1) = pat

\* String.prototype.indexOf, 1-based; 0 when pat does not occur.
IndexOf(s, pat) ==
    LET hits == {i \in 1..(Len(s) + 1) : MatchesAt(s, pat, i)}
    IN IF hits = {} THEN 0 ELSE CHOOSE i \in hits : \A j \in hits : i <= j

Includes(s, pat) == IndexOf(s, pat) # 0

\* String.prototype.replace with a string pattern: the first occurrence only.
ReplaceFirst(s, pat, rep) ==
    LET i == IndexOf(s, pat)
    IN IF i = 0 THEN s
       ELSE SubSeq(s, 1, i - 1) \o rep \o SubSeq(s, i + Len(pat), Len(s))

\* The least member of a non-empty set of indices.
Least(indices) == CHOOSE i \in indices : \A j \in indices : i <= j

\* The first index >= from at which pat occurs in s; 0 when there is none.
IndexOfFrom(s, pat, from) ==
    LET hits == {i \in from..(Len(s) + 1) : MatchesAt(s, pat, i)}
    IN IF hits = {} THEN 0 ELSE Least(hits)

\* The first index >= from of a character of s in chars; 0 when there is none.
IndexOfCharIn(s, chars, from) ==
    LET hits == {i \in from..Len(s) : CharAt(s, i) \in chars}
    IN IF hits = {} THEN 0 ELSE Least(hits)

\* The text of s from i on with every occurrence of pat replaced, matches
\* taken from the left and not overlapping.
RECURSIVE ReplaceAllFrom(_, _, _, _)
ReplaceAllFrom(s, pat, rep, i) ==
    LET k == IndexOfFrom(s, pat, i)
    IN IF k = 0 THEN SubSeq(s, i, Len(s))
       ELSE SubSeq(s, i, k - 1) \o rep \o ReplaceAllFrom(s, pat, rep, k + Len(pat))

\* Faulty variant: the regular expression lacks the g flag.
ReplaceOnce(s, pat, rep) == ReplaceFirst(s, pat, rep)

\* String.prototype.replace with new RegExp(pat, 'g') for a literal pat.
ReplaceAll(s, pat, rep) == ReplaceAllFrom(s, pat, rep, 1)

Upper == <<"A", "B", "C", "D", "E", "F", "G", "H", "I", "J", "K", "L", "M",
           "N", "O", "P", "Q", "R", "S", "T", "U", "V", "W", "X", "Y", "Z">>
Lower == <<"a", "b", "c", "d", "e", "f", "g", "h", "i", "j", "k", "l", "m",
           "n", "o", "p", "q", "r", "s", "t", "u", "v", "w", "x", "y", "z">>
UpperSet == {Upper[i] : i \in 1..Len(Upper)}
LowerSet == {Lower[i] : i \in 1..Len(Lower)}
DigitSet == {"0", "1", "2", "3", "4", "5", "6", "7", "8", "9"}
\* The ASCII members of the regular expression class \s.
WhitespaceSet == {" ", "\t", "\n", "\r", "\f"}

LowerChar(c) ==
    IF c \in UpperSet
    THEN Lower[CHOOSE i \in 1..Len(Upper) : Upper[i] = c]
    ELSE c

UpperChar(c) ==
    IF c \in LowerSet
    THEN Upper[CHOOSE i \in 1..Len(Lower) : Lower[i] = c]
    ELSE c

RECURSIVE LowerFrom(_, _)
LowerFrom(s, i) ==
    IF i > Len(s) THEN "" ELSE LowerChar(CharAt(s, i)) \o LowerFrom(s, i + 1)

toLowerCase(s) == LowerFrom(s, 1)

RECURSIVE SkipWhitespace(_, _)
SkipWhitespace(s, i) ==
    IF i <= Len(s) /\ CharAt(s, i) \in WhitespaceSet
    THEN SkipWhitespace(s, i + 1)
    ELSE i

\* .replace(/\s+/g, '-'): every maximal run of whitespace becomes one hyphen.
RECURSIVE ReplaceWhitespaceRuns(_, _)
ReplaceWhitespaceRuns(s, i) ==
    IF i > Len(s) THEN ""
    ELSE IF CharAt(s, i) \in WhitespaceSet
         THEN "-" \o ReplaceWhitespaceRuns(s, SkipWhitespace(s, i))
         ELSE CharAt(s, i) \o ReplaceWhitespaceRuns(s, i + 1)

FilenameCharSet == LowerSet \cup DigitSet \cup {"-"}

\* .replace(/[^a-z0-9-]/g, '-'): each other character becomes a hyphen.
HyphenateChar(c) == IF c \in FilenameCharSet THEN c ELSE "-"

RECURSIVE HyphenateFrom(_, _)
HyphenateFrom(s, i) ==
    IF i > Len(s) THEN ""
    ELSE HyphenateChar(CharAt(s, i)) \o HyphenateFrom(s, i + 1)

\* Faulty variant: the last replacement left out.
ReplaceOtherCharsSkipped(s) == s

ReplaceOtherChars(s) == HyphenateFrom(s, 1)

santizeFilename(rawName) ==
    ReplaceOtherChars(ReplaceWhitespaceRuns(toLowerCase(rawName), 1))

-----------------------------------------------------------------------------
(* The repository preset table (presets.yaml) and the input schema          *)
(* (icons.input.schema.json).  Neither file is among the sources; the table *)
(* holds the presets whose fields the tests and the specification show, and *)
(* the schema is the one they describe.                                     *)

Heroicons ==
    [name |-> "heroicons", owner |-> "tailwindlabs", repo |-> "heroicons",
     branch |-> Some("master"),
     pathTemplate |-> "optimized/24/{variant}/{iconName}.svg"]

Feather ==
    [name |-> "feather", owner |-> "feathericons", repo |-> "feather",
     branch |-> None, pathTemplate |-> "icons/{iconName}.svg"]

Lucide ==
    [name |-> "lucide", owner |-> "lucide-icons", repo |-> "lucide",
     branch |-> None, pathTemplate |-> "icons/{iconName}.svg"]

Presets == {Heroicons, Feather, Lucide}

PresetNames == {r.name : r \in Presets}

\* repositoryMap.get(key): the preset of that name, or undefined.  A missing
\* `repository` key reads as undefined, which is no key of the map.
repositoryMapGet(key) ==
    IF IsSome(key) /\ Get(key) \in PresetNames
    THEN Some(CHOOSE r \in Presets : r.name = Get(key))
    ELSE None

\* validate(data): `icons` is required; every icon needs a `name`, and a
\* repository either of its own or from the top level; a repository that is
\* named must be one of the known names.
Validate(data) ==
    /\ IsSome(data.icons)
    /\ IsSome(data.repository) => Get(data.repository) \in PresetNames
    /\ \A i \in 1..Len(Get(data.icons)) :
          LET icon == Get(data.icons)[i]
          IN /\ IsSome(icon.name)
             /\ IsSome(icon.repository) \/ IsSome(data.repository)
             /\ IsSome(icon.repository) => Get(icon.repository) \in PresetNames

-----------------------------------------------------------------------------
(* utils.ts: loadAndParseIconInputsFromFile *)

\* new IconInput(data)
NewIconInput(data) ==
    [output |-> data.output,
     name |-> data.name,
     filename |-> data.filename,
     variant |-> data.variant,
     size |-> data.size,
     repository |-> data.repository,
     overwrite |-> IsSome(data.overwrite) /\ Get(data.overwrite),
     tsxTransform |-> IsSome(data.tsxTransform) /\ Get(data.tsxTransform),
     svgText |-> None]

\* Faulty variant: the top-level output wins over the icon's own.
EffectiveOutputGlobalFirst(icon, data) ==
    IF Truthy(data.output) THEN Get(data.output)
    ELSE IF Truthy(icon.output) THEN Get(icon.output)
    ELSE "."

\* icon.output || data.output || '.'
EffectiveOutput(icon, data) ==
    IF Truthy(icon.output) THEN Get(icon.output)
    ELSE IF Truthy(data.output) THEN Get(data.output)
    ELSE "."

\* Faulty variant: saveAs is sanitized too.
EffectiveFilenameSanitized(icon) ==
    santizeFilename(IF Truthy(icon.saveAs) THEN Get(icon.saveAs)
                    ELSE Get(icon.name))

\* icon.saveAs || santizeFilename(icon.name), for an icon that has a name
EffectiveFilename(icon) ==
    IF Truthy(icon.saveAs) THEN Get(icon.saveAs)
    ELSE santizeFilename(Get(icon.name))

\* Faulty variant: unshift in place of push.
PushFront(iconConfigs, iconInput) == <<iconInput>> \o iconConfigs

\* iconConfigs.push(iconInput)
Push(iconConfigs, iconInput) == Append(iconConfigs, iconInput)

Thrown(message) == [ok |-> FALSE, error |-> message, icons |-> <<>>]

Returned(iconConfigs) == [ok |-> TRUE, error |-> "", icons |-> iconConfigs]

\* The loop over data.icons from entry i on, iconConfigs holding the
\* descriptors pushed so far.  A throw leaves the function with no value.
RECURSIVE LoadLoop(_, _, _)
LoadLoop(data, i, iconConfigs) ==
    IF i > Len(Get(data.icons)) THEN Returned(iconConfigs)
    ELSE
      LET icon == Get(data.icons)[i]
          repository == repositoryMapGet(icon.repository)
      IN IF ~IsSome(repository)
         THEN Thrown("Unknown repository preset: "
                     \o (IF IsSome(icon.repository) THEN Get(icon.repository)
                         ELSE "undefined"))
         ELSE IF ~Truthy(icon.saveAs) /\ ~IsSome(icon.name)
         \* santizeFilename(undefined): undefined has no toLowerCase
         THEN Thrown("TypeError")
         ELSE LoadLoop(data, i + 1,
                  Push(iconConfigs,
                         NewIconInput(
                           [output |-> EffectiveOutput(icon, data),
                            name |-> IF IsSome(icon.name) THEN Get(icon.name)
                                     ELSE "undefined",
                            filename |-> EffectiveFilename(icon),
                            variant |-> icon.variant,
                            size |-> icon.size,
                            repository |-> Get(repository),
                            overwrite |-> icon.overwrite,
                            tsxTransform |-> icon.tsxTransform])))

\* Faulty variant: the schema is not checked.
loadWithoutValidation(data) ==
    IF ~IsSome(data.icons) THEN Thrown("TypeError") ELSE LoadLoop(data, 1, <<>>)

loadAndParseIconInputsFromFile(data) ==
    IF ~Validate(data)
    THEN Thrown("Invalid icons input file")
    ELSE LoadLoop(data, 1, <<>>)

-----------------------------------------------------------------------------
(* IconInput.ts: buildUrl *)

Digit == <<"0", "1", "2", "3", "4", "5", "6", "7", "8", "9">>

\* Number.prototype.toString for a non-negative integer.
RECURSIVE NumberToString(_)
NumberToString(n) ==
    IF n < 10 THEN Digit[n + 1]
    ELSE NumberToString(n \div 10) \o Digit[(n % 10) + 1]

\* this.size?.toString() || ''
SizeText(size) == IF IsSome(size) THEN NumberToString(Get(size)) ELSE ""

\* this.variant || ''
VariantText(variant) == IF Truthy(variant) THEN Get(variant) ELSE ""

\* Faulty variant: the default branch is 'master'.
BranchTextMaster(repository) ==
    IF Truthy(repository.branch) THEN Get(repository.branch) ELSE "master"

\* this.repository.branch || 'main'
BranchText(repository) ==
    IF Truthy(repository.branch) THEN Get(repository.branch) ELSE "main"

buildUrl(icon) ==
    LET baseUrl == "https://raw.githubusercontent.com/" \o icon.repository.owner
                   \o "/" \o icon.repository.repo
                   \o "/" \o BranchText(icon.repository)
        path == ReplaceFirst(
                  ReplaceFirst(
                    ReplaceFirst(icon.repository.pathTemplate,
                                 "{variant}", VariantText(icon.variant)),
                    "{size}", SizeText(icon.size)),
                  "{iconName}", icon.name)
    IN baseUrl \o "/" \o path

-----------------------------------------------------------------------------
(* IconInput.ts: transform and processSvgForReact *)

\* .replace(/<\?xml[^?]*\?>/g, ''): after "<?xml" the match runs over every
\* character that is no "?", and needs "?>" right there.
RECURSIVE StripXmlDeclaration(_, _)
StripXmlDeclaration(s, i) ==
    LET Mark(k) == IndexOfCharIn(s, {"?"}, k + 5)
        starts == {k \in i..Len(s) : /\ MatchesAt(s, "<?xml", k)
                                      /\ Mark(k) # 0
                                      /\ MatchesAt(s, "?>", Mark(k))}
    IN IF starts = {} THEN SubSeq(s, i, Len(s))
       ELSE SubSeq(s, i, Least(starts) - 1)
            \o StripXmlDeclaration(s, Mark(Least(starts)) + 2)

\* Object.entries(attributeMap), in insertion order
attributeMap ==
    << <<"stroke-width", "strokeWidth">>,
       <<"stroke-linecap", "strokeLinecap">>,
       <<"stroke-linejoin", "strokeLinejoin">>,
       <<"fill-rule", "fillRule">>,
       <<"clip-rule", "clipRule">>,
       <<"fill-opacity", "fillOpacity">>,
       <<"stroke-opacity", "strokeOpacity">> >>

\* The forEach over attributeMap from entry k on: one global replacement each.
RECURSIVE ConvertAttributes(_, _)
ConvertAttributes(s, k) ==
    IF k > Len(attributeMap) THEN s
    ELSE ConvertAttributes(ReplaceAll(s, attributeMap[k][1], attributeMap[k][2]),
                           k + 1)

\* .replace(/attr="[^"]*"/g, rep), open being the text attr=" : a match runs
\* from open to the next double quote.
RECURSIVE ReplaceQuoted(_, _, _, _)
ReplaceQuoted(s, open, rep, i) ==
    LET Close(k) == IndexOfCharIn(s, {"\""}, k + Len(open))
        starts == {k \in i..Len(s) : MatchesAt(s, open, k) /\ Close(k) # 0}
    IN IF starts = {} THEN SubSeq(s, i, Len(s))
       ELSE SubSeq(s, i, Least(starts) - 1) \o rep
            \o ReplaceQuoted(s, open, rep, Close(Least(starts)) + 1)

\* Replace fixed width/height with props, or add them if not present.
SizeProp(s, attr) ==
    IF Includes(s, attr \o "=")
    THEN ReplaceQuoted(s, attr \o "=\"", attr \o "={" \o attr \o "}", 1)
    ELSE ReplaceFirst(s, "<svg", "<svg " \o attr \o "={" \o attr \o "}")

\* .replace(/<svg([^>]*)>/, '<svg$1>\n        <title>{title}</title>'): the
\* first "<svg" that a ">" follows, up to the first such ">".
InsertTitle(s) ==
    LET i == IndexOf(s, "<svg")
        j == IF i = 0 THEN 0 ELSE IndexOfCharIn(s, {">"}, i + 4)
    IN IF j = 0 THEN s
       ELSE SubSeq(s, 1, j) \o "\n        <title>{title}</title>"
            \o SubSeq(s, j + 1, Len(s))

\* String.prototype.trim: from the first to the last character that is no
\* whitespace.
trim(s) ==
    LET IsSpace(i) == CharAt(s, i) \in WhitespaceSet
    IN IF \A i \in 1..Len(s) : IsSpace(i) THEN ""
       ELSE SubSeq(s,
                   CHOOSE i \in 1..Len(s) :
                       ~IsSpace(i) /\ \A j \in 1..(i - 1) : IsSpace(j),
                   CHOOSE i \in 1..Len(s) :
                       ~IsSpace(i) /\ \A j \in (i + 1)..Len(s) : IsSpace(j))

\* The markup as rewritten before it is wrapped in the component.
ProcessedMarkup(svgText) ==
    LET stripped == StripXmlDeclaration(svgText, 1)
        camel == ConvertAttributes(stripped, 1)
        sized == SizeProp(SizeProp(camel, "width"), "height")
        titled == InsertTitle(sized)
        unclassed == ReplaceQuoted(titled, "class=\"", "", 1)
    IN ReplaceFirst(unclassed, "<svg", "<svg {...rest}")

\* processSvgForReact(componentName) on a descriptor that has SVG text.  The
\* template names the function BootstrapHeart whatever componentName is.
processSvgForReact(icon, componentName) ==
    "\nimport type { SVGProps } from 'react';\n\n"
    \o "interface IconProps extends SVGProps<SVGSVGElement> {\n"
    \o "    title?: string;\n}\n\n"
    \o "export default function BootstrapHeart({\n"
    \o "    title = '" \o icon.name \o "',\n"
    \o "    width,\n    height,\n    ...rest\n"
    \o "}: IconProps): React.ReactNode {\n"
    \o "    return (\n        " \o trim(ProcessedMarkup(Get(icon.svgText))) \o "\n"
    \o "    );\n}\n        "

\* part.charAt(0).toUpperCase() + part.slice(1)
Capitalize(part) ==
    IF part = "" THEN "" ELSE UpperChar(CharAt(part, 1)) \o SubSeq(part, 2, Len(part))

\* this.filename.split('-').map(capitalize).join(''), from index i on
RECURSIVE ComponentNameFrom(_, _)
ComponentNameFrom(filename, i) ==
    LET dash == IndexOfCharIn(filename, {"-"}, i)
    IN IF dash = 0 THEN Capitalize(SubSeq(filename, i, Len(filename)))
       ELSE Capitalize(SubSeq(filename, i, dash - 1))
            \o ComponentNameFrom(filename, dash + 1)

ComponentName(filename) == ComponentNameFrom(filename, 1)

\* The error of transform and saveToFile on a descriptor without SVG text.
NotDownloaded(icon) == "Icon data is not downloaded for " \o icon.name

\* Faulty variant: the flag is not read, every text is transformed.
transformAlways(icon) ==
    [icon EXCEPT !.svgText =
         Some(processSvgForReact(icon, ComponentName(icon.filename)))]

\* transform(): the descriptor after it, for a descriptor that has SVG text.
transform(icon) ==
    IF icon.tsxTransform
    THEN [icon EXCEPT !.svgText =
              Some(processSvgForReact(icon, ComponentName(icon.filename)))]
    ELSE icon

-----------------------------------------------------------------------------
(* IconInput.ts: grabSvgText and saveToFile *)

\* The error of grabSvgText on a response that is not ok.
DownloadFailed(icon, requested, status, statusText) ==
    "Failed to download icon " \o icon.name \o " from " \o requested \o ": "
    \o NumberToString(status) \o " " \o statusText

\* Faulty variant: the extension does not follow the flag.
FilePathSvg(icon) == icon.output \o "/" \o icon.filename \o ".svg"

\* The file saveToFile writes.
FilePath(icon) ==
    IF icon.tsxTransform
    THEN icon.output \o "/" \o icon.filename \o ".tsx"
    ELSE icon.output \o "/" \o icon.filename \o ".svg"

RECURSIVE StripTrailingSlashes(_)
StripTrailingSlashes(s) ==
    IF Len(s) > 1 /\ CharAt(s, Len(s)) = "/"
    THEN StripTrailingSlashes(SubSeq(s, 1, Len(s) - 1))
    ELSE s

\* The last index of "/" in s; 0 when there is none.
LastSlash(s) ==
    LET hits == {i \in 1..Len(s) : CharAt(s, i) = "/"}
    IN IF hits = {} THEN 0 ELSE CHOOSE i \in hits : \A j \in hits : i >= j

\* path.dirname of a path that does not end in "/".
dirname(path) ==
    LET k == LastSlash(path)
    IN IF k = 0 THEN "."
       ELSE IF k = 1 THEN "/"
       ELSE StripTrailingSlashes(SubSeq(path, 1, k - 1))

-----------------------------------------------------------------------------
(* Values every specification leaves alone when it is about something else *)

NoFiles == [p \in {} |-> ""]

SanIdle == rawFilename = "" /\ sanitized = None
UrlIdle == urlIcon = None /\ url = None
LoadIdle == config = None /\ verbose = FALSE /\ pc = "off" /\ loaded = None
IconIdle ==
    /\ icons = <<>>
    /\ tasks = <<>>
    /\ httpGets = <<>>
    /\ fs = NoFiles
    /\ dirs = {}
    /\ writes = 0
    /\ console = <<>>

RECURSIVE StringsUpTo(_, _)
StringsUpTo(alphabet, n) ==
    IF n = 0 THEN {""}
    ELSE LET shorter == StringsUpTo(alphabet, n - 1)
         IN shorter \cup {s \o c : s \in shorter, c \in alphabet}

-----------------------------------------------------------------------------
(* SpecSanitize: santizeFilename on every string up to MaxNameLen *)

MaxNameLen == 3

SanitizeAlphabet == {"a", "Z", "7", "-", " ", "\t", "_", "@"}

InitSanitize ==
    /\ rawFilename \in StringsUpTo(SanitizeAlphabet, MaxNameLen)
    /\ sanitized = None
    /\ UrlIdle /\ LoadIdle /\ IconIdle

Sanitize ==
    /\ sanitized = None
    /\ sanitized' = Some(santizeFilename(rawFilename))
    /\ UNCHANGED <<rawFilename, urlVars, loadVars, iconVars>>

SpecSanitize == InitSanitize /\ [][Sanitize]_vars

-----------------------------------------------------------------------------
(* SpecUrl: buildUrl on descriptors over the presets and the templates of   *)
(* the tests                                                                *)

MaxUrlNameLen == 2
MaxSize == 24

\* IconInput.test.ts, 'handles size placeholder'
SizedRepository ==
    [name |-> "heroicons", owner |-> "test", repo |-> "test",
     branch |-> None, pathTemplate |-> "icons/{size}/{iconName}.svg"]

\* A template with all three placeholders.
FullRepository ==
    [name |-> "heroicons", owner |-> "o", repo |-> "r",
     branch |-> Some("dev"), pathTemplate |-> "{size}/{variant}/{iconName}.svg"]

UrlRepositories == Presets \cup {SizedRepository, FullRepository}

UrlNames == StringsUpTo({"a", "-", "4"}, MaxUrlNameLen) \cup {"arrow-right"}

UrlVariants == {None, Some(""), Some("outline"), Some("24/solid")}

UrlSizes == {None} \cup {Some(n) : n \in 0..MaxSize}

InitUrl ==
    /\ \E r \in UrlRepositories, n \in UrlNames, v \in UrlVariants, z \in UrlSizes :
          urlIcon = Some(NewIconInput(
                      [output |-> ".", name |-> n, filename |-> n, variant |-> v,
                       size |-> z, repository |-> r, overwrite |-> None,
                       tsxTransform |-> None]))
    /\ url = None
    /\ SanIdle /\ LoadIdle /\ IconIdle

BuildUrl ==
    /\ IsSome(urlIcon)
    /\ url = None
    /\ url' = Some(buildUrl(Get(urlIcon)))
    /\ UNCHANGED <<urlIcon, sanVars, loadVars, iconVars>>

SpecUrl == InitUrl /\ [][BuildUrl]_vars

-----------------------------------------------------------------------------
(* SpecLoad: loadAndParseIconInputsFromFile on input files of up to         *)
(* MaxIcons icons                                                           *)

MaxIcons == 2

\* The smallest valid icon entry, and entries that differ from it in one
\* respect each.
BaseEntry ==
    [name |-> Some("home"), repository |-> Some("heroicons"), variant |-> None,
     size |-> None, output |-> None, saveAs |-> None, overwrite |-> None,
     tsxTransform |-> None]

LoadEntries ==
    {BaseEntry,
     [BaseEntry EXCEPT !.name = Some("Arrow_Right Icon!")],
     [BaseEntry EXCEPT !.name = None],
     [BaseEntry EXCEPT !.name = None, !.saveAs = Some("no-name")],
     [BaseEntry EXCEPT !.repository = None],
     [BaseEntry EXCEPT !.repository = Some("feather")],
     [BaseEntry EXCEPT !.repository = Some("unknown-repo")],
     [BaseEntry EXCEPT !.variant = Some("outline"), !.size = Some(24)],
     [BaseEntry EXCEPT !.output = Some("./specific")],
     [BaseEntry EXCEPT !.output = Some("")],
     [BaseEntry EXCEPT !.saveAs = Some("My Custom Name!")],
     [BaseEntry EXCEPT !.saveAs = Some("")],
     [BaseEntry EXCEPT !.tsxTransform = Some(TRUE), !.overwrite = Some(TRUE)]}

IconLists(entries, n) == UNION {[1..k -> entries] : k \in 0..n}

LoadConfigs ==
    {[repository |-> r, output |-> o, icons |-> l] :
        r \in {None, Some("heroicons"), Some("unknown-repo")},
        o \in {None, Some(""), Some("./global")},
        l \in {None} \cup {Some(x) : x \in IconLists(LoadEntries, MaxIcons)}}

\* console.log('Validation errors:', validate.errors)
LoadPrints(data) ==
    IF Validate(data) THEN <<>> ELSE << <<"log", "Validation errors:">> >>

InitLoad ==
    /\ config \in {Some(c) : c \in LoadConfigs}
    /\ verbose = FALSE
    /\ pc = "test"
    /\ loaded = None
    /\ SanIdle /\ UrlIdle /\ IconIdle

\* A test's call of loadAndParseIconInputsFromFile on the file.
Load ==
    /\ pc = "test"
    /\ loaded = None
    /\ loaded' = Some(loadAndParseIconInputsFromFile(Get(config)))
    /\ console' = console \o LoadPrints(Get(config))
    /\ UNCHANGED <<config, verbose, pc, sanVars, urlVars,
                   icons, tasks, httpGets, fs, dirs, writes>>

SpecLoad == InitLoad /\ [][Load]_vars

-----------------------------------------------------------------------------
(* Calls on descriptors.  A call of download() or grabSvgText() is a task:   *)
(* it runs up to its next await in one step, and other tasks may run        *)
(* between two of its steps.  Its pc says what it awaits:                   *)
(*   "fetching"     fetch(url)                                              *)
(*   "reading"      response.text()                                         *)
(*   "grabbed"      the promise of grabSvgText() (download only)            *)
(*   "transformed"  the value of transform() (download only)                *)
(*   "mkdir"        mkdir(dirname(filePath))                                *)
(*   "writing"      writeFile(filePath, svgText)                            *)
(*   "done", "failed"  it has returned, or thrown `error`                   *)
(* gets, logs, textAtCall, response, status and statusText record what the  *)
(* call has done and met: the GETs it issued, its calls of logError, the    *)
(* SVG text it found when called, and the response to its fetch ("ok",      *)
(* "notOk", "rejected", or "" before any).                                  *)

SvgSized == "<svg width=\"24\" height=\"24\"><path stroke-width=\"2\"/></svg>"

SvgPlain == "<svg viewBox=\"0 0 24 24\" class=\"icon\"><path d=\"M0 0\"/></svg>"

\* The bodies a successful response may carry.
Bodies == {"", SvgSized, SvgPlain}

\* The responses that are not ok.
NotOkResponses ==
    {[status |-> 404, statusText |-> "Not Found"],
     [status |-> 500, statusText |-> "Internal Server Error"]}

\* Faulty variant: no guard on the SVG text, every call fetches.
StartGrabUnguarded(icon, i, op, cli) ==
    [icon |-> i, op |-> op, cli |-> cli, pc |-> "fetching",
     requested |-> buildUrl(icon),
     body |-> "", path |-> "", content |-> "", error |-> "",
     gets |-> 1, logs |-> 0, textAtCall |-> icon.svgText,
     response |-> "", status |-> 0, statusText |-> ""]

\* grabSvgText() up to its first await, called on icon i by a call of `op`:
\* it returns at once when there is SVG text, and fetches otherwise.
StartGrab(icon, i, op, cli) ==
    LET have == Truthy(icon.svgText)
    IN [icon |-> i, op |-> op, cli |-> cli,
        pc |-> IF ~have THEN "fetching"
               ELSE IF op = "grabSvgText" THEN "done" ELSE "grabbed",
        requested |-> IF have THEN "" ELSE buildUrl(icon),
        body |-> "", path |-> "", content |-> "", error |-> "",
        gets |-> IF have THEN 0 ELSE 1,
        logs |-> 0,
        textAtCall |-> icon.svgText,
        response |-> "", status |-> 0, statusText |-> ""]

\* The GETs a sequence of started calls issued, in order.
RECURSIVE Requested(_, _)
Requested(started, k) ==
    IF k > Len(started) THEN <<>>
    ELSE (IF started[k].gets = 1 THEN <<started[k].requested>> ELSE <<>>)
         \o Requested(started, k + 1)

\* showError(error) in the catch of the per-icon callback of the CLI.
ShowError(cli, message) ==
    IF cli /\ verbose THEN << <<"error", message>> >> ELSE <<>>

\* logError(data): console.warn(data.error.message)
logError(message) == << <<"warn", message>> >>

\* Faulty variant: one call's failure ends every call.
FailAll(t, message) ==
    [u \in DOMAIN tasks |-> [tasks[u] EXCEPT !.pc = "failed", !.error = message]]

\* The call t has thrown `message`.
Fail(t, message) ==
    [tasks EXCEPT ![t].pc = "failed", ![t].error = message]

\* fetch resolves with a response that is ok.
FetchOk(t) ==
    /\ tasks[t].pc = "fetching"
    /\ \E b \in Bodies :
          tasks' = [tasks EXCEPT ![t].pc = "reading", ![t].body = b,
                                 ![t].response = "ok", ![t].status = 200,
                                 ![t].statusText = "OK"]
    /\ UNCHANGED <<icons, httpGets, fs, dirs, writes, console>>
    /\ UNCHANGED <<sanVars, urlVars, loadVars>>

\* Faulty variant: a response that is not ok is answered by fetching again.
FetchNotOkRetrying(t) ==
    /\ tasks[t].pc = "fetching"
    /\ \E r \in NotOkResponses :
          tasks' = [tasks EXCEPT ![t].gets = @ + 1,
                                 ![t].response = "notOk",
                                 ![t].status = r.status,
                                 ![t].statusText = r.statusText]
    /\ tasks[t].gets = 1
    /\ httpGets' = Append(httpGets, tasks[t].requested)
    /\ UNCHANGED <<icons, fs, dirs, writes, console>>
    /\ UNCHANGED <<sanVars, urlVars, loadVars>>

\* fetch resolves with a response that is not ok: the error is built, handed
\* to logError and thrown.
FetchNotOk(t) ==
    /\ tasks[t].pc = "fetching"
    /\ \E r \in NotOkResponses :
          LET message == DownloadFailed(icons[tasks[t].icon], tasks[t].requested,
                                        r.status, r.statusText)
          IN /\ tasks' = [Fail(t, message) EXCEPT ![t].logs = @ + 1,
                                                  ![t].response = "notOk",
                                                  ![t].status = r.status,
                                                  ![t].statusText = r.statusText]
             /\ console' = console \o logError(message)
                                   \o ShowError(tasks[t].cli, message)
    /\ UNCHANGED <<icons, httpGets, fs, dirs, writes>>
    /\ UNCHANGED <<sanVars, urlVars, loadVars>>

\* fetch rejects: the network error leaves grabSvgText as it came.
FetchRejects(t) ==
    /\ tasks[t].pc = "fetching"
    /\ tasks' = [Fail(t, "fetch failed") EXCEPT ![t].response = "rejected"]
    /\ console' = console \o ShowError(tasks[t].cli, "fetch failed")
    /\ UNCHANGED <<icons, httpGets, fs, dirs, writes>>
    /\ UNCHANGED <<sanVars, urlVars, loadVars>>

\* Faulty variant: the SVG text is one buffer shared by all descriptors.
BodyArrivesShared(t) ==
    /\ tasks[t].pc = "reading"
    /\ icons' = [i \in DOMAIN icons |->
                   [icons[i] EXCEPT !.svgText = Some(tasks[t].body)]]
    /\ tasks' = [tasks EXCEPT ![t].pc = IF tasks[t].op = "grabSvgText"
                                        THEN "done" ELSE "grabbed"]
    /\ UNCHANGED <<httpGets, fs, dirs, writes, console>>
    /\ UNCHANGED <<sanVars, urlVars, loadVars>>

\* response.text() resolves: this.svgText = data, and grabSvgText returns.
BodyArrives(t) ==
    /\ tasks[t].pc = "reading"
    /\ icons' = [icons EXCEPT ![tasks[t].icon].svgText = Some(tasks[t].body)]
    /\ tasks' = [tasks EXCEPT ![t].pc = IF tasks[t].op = "grabSvgText"
                                        THEN "done" ELSE "grabbed"]
    /\ UNCHANGED <<httpGets, fs, dirs, writes, console>>
    /\ UNCHANGED <<sanVars, urlVars, loadVars>>

\* Faulty variant: download() goes from the fetch straight to the write.
TransformSkipped(t) ==
    /\ tasks[t].pc = "grabbed"
    /\ tasks' = [tasks EXCEPT ![t].pc = "transformed"]
    /\ UNCHANGED <<icons, httpGets, fs, dirs, writes, console>>
    /\ UNCHANGED <<sanVars, urlVars, loadVars>>

\* download() after grabSvgText: transform().
Transform(t) ==
    /\ tasks[t].pc = "grabbed"
    /\ LET icon == icons[tasks[t].icon]
       IN IF ~Truthy(icon.svgText)
          THEN /\ tasks' = Fail(t, NotDownloaded(icon))
               /\ console' = console \o ShowError(tasks[t].cli, NotDownloaded(icon))
               /\ UNCHANGED icons
          ELSE /\ icons' = [icons EXCEPT ![tasks[t].icon] = transform(icon)]
               /\ tasks' = [tasks EXCEPT ![t].pc = "transformed"]
               /\ UNCHANGED console
    /\ UNCHANGED <<httpGets, fs, dirs, writes>>
    /\ UNCHANGED <<sanVars, urlVars, loadVars>>

\* download() after transform: saveToFile() up to its mkdir.
SaveToFile(t) ==
    /\ tasks[t].pc = "transformed"
    /\ LET icon == icons[tasks[t].icon]
       IN IF ~Truthy(icon.svgText)
          THEN /\ tasks' = Fail(t, NotDownloaded(icon))
               /\ console' = console \o ShowError(tasks[t].cli, NotDownloaded(icon))
          ELSE /\ tasks' = [tasks EXCEPT ![t].pc = "mkdir",
                                         ![t].path = FilePath(icon)]
               /\ UNCHANGED console
    /\ UNCHANGED <<icons, httpGets, fs, dirs, writes>>
    /\ UNCHANGED <<sanVars, urlVars, loadVars>>

\* mkdir resolves: writeFile is called with the SVG text of that moment.
MkdirDone(t) ==
    /\ tasks[t].pc = "mkdir"
    /\ dirs' = dirs \cup {dirname(tasks[t].path)}
    /\ tasks' = [tasks EXCEPT ![t].pc = "writing",
                              ![t].content = Get(icons[tasks[t].icon].svgText)]
    /\ UNCHANGED <<icons, httpGets, fs, writes, console>>
    /\ UNCHANGED <<sanVars, urlVars, loadVars>>

\* Faulty variant: an existing file is kept unless the overwrite flag is set.
WriteDoneKeeping(t) ==
    /\ tasks[t].pc = "writing"
    /\ LET keep == /\ tasks[t].path \in DOMAIN fs
                   /\ ~icons[tasks[t].icon].overwrite
       IN /\ fs' = [p \in DOMAIN fs \cup {tasks[t].path} |->
                       IF p = tasks[t].path /\ ~keep THEN tasks[t].content
                       ELSE fs[p]]
          /\ writes' = IF keep THEN writes ELSE writes + 1
    /\ tasks' = [tasks EXCEPT ![t].pc = "done"]
    /\ UNCHANGED <<icons, httpGets, dirs, console>>
    /\ UNCHANGED <<sanVars, urlVars, loadVars>>

\* Faulty variant: a file that exists is left as it is; the first write wins.
WriteDoneFirstWins(t) ==
    /\ tasks[t].pc = "writing"
    /\ fs' = [p \in DOMAIN fs \cup {tasks[t].path} |->
                 IF p \in DOMAIN fs THEN fs[p] ELSE tasks[t].content]
    /\ writes' = writes + 1
    /\ tasks' = [tasks EXCEPT ![t].pc = "done"]
    /\ UNCHANGED <<icons, httpGets, dirs, console>>
    /\ UNCHANGED <<sanVars, urlVars, loadVars>>

\* writeFile resolves: the file holds the content, whatever it held before.
WriteDone(t) ==
    /\ tasks[t].pc = "writing"
    /\ fs' = [p \in DOMAIN fs \cup {tasks[t].path} |->
                 IF p = tasks[t].path THEN tasks[t].content ELSE fs[p]]
    /\ writes' = writes + 1
    /\ tasks' = [tasks EXCEPT ![t].pc = "done"]
    /\ UNCHANGED <<icons, httpGets, dirs, console>>
    /\ UNCHANGED <<sanVars, urlVars, loadVars>>

\* writeFile rejects.
WriteFails(t) ==
    /\ tasks[t].pc = "writing"
    /\ tasks' = Fail(t, "write failed")
    /\ console' = console \o ShowError(tasks[t].cli, "write failed")
    /\ UNCHANGED <<icons, httpGets, fs, dirs, writes>>
    /\ UNCHANGED <<sanVars, urlVars, loadVars>>

Running == 1..Len(tasks)

-----------------------------------------------------------------------------
(* SpecApi: calls of grabSvgText() and download() on one descriptor, made   *)
(* at any time.  The descriptor is built as the download tests of          *)
(* IconInput.test.ts build theirs: tsxTransform is left to its default.     *)

MaxCalls == 2

ApiIcons ==
    {[NewIconInput([output |-> "./icons", name |-> "test-tsx",
                    filename |-> "test-tsx", variant |-> Some("outline"),
                    size |-> None, repository |-> Heroicons, overwrite |-> None,
                    tsxTransform |-> None])
         EXCEPT !.svgText = text] :
        text \in {None, Some(""), Some(SvgPlain)}}

InitApi ==
    /\ icons \in {<<icon>> : icon \in ApiIcons}
    /\ tasks = <<>>
    /\ httpGets = <<>>
    /\ fs = NoFiles
    /\ dirs = {}
    /\ writes = 0
    /\ console = <<>>
    /\ config = None /\ verbose = FALSE /\ pc = "api" /\ loaded = None
    /\ SanIdle /\ UrlIdle

Call(i, op) ==
    /\ pc = "api"
    /\ Len(tasks) < MaxCalls
    /\ LET call == StartGrab(icons[i], i, op, FALSE)
       IN /\ tasks' = Append(tasks, call)
          /\ httpGets' = httpGets \o Requested(<<call>>, 1)
    /\ UNCHANGED <<icons, fs, dirs, writes, console>>
    /\ UNCHANGED <<sanVars, urlVars, loadVars>>

CallGrabSvgText == \E i \in 1..Len(icons) : Call(i, "grabSvgText")

CallDownload == \E i \in 1..Len(icons) : Call(i, "download")

NextApi ==
    \/ CallGrabSvgText
    \/ CallDownload
    \/ \E t \in Running : FetchOk(t)
    \/ \E t \in Running : FetchNotOk(t)
    \/ \E t \in Running : FetchRejects(t)
    \/ \E t \in Running : BodyArrives(t)
    \/ \E t \in Running : Transform(t)
    \/ \E t \in Running : SaveToFile(t)
    \/ \E t \in Running : MkdirDone(t)
    \/ \E t \in Running : WriteDone(t)
    \/ \E t \in Running : WriteFails(t)

SpecApi == InitApi /\ [][NextApi]_vars

-----------------------------------------------------------------------------
(* Spec: a run of the CLI, index.ts                                         *)

MaxCliIcons == 2

CliEntries ==
    {BaseEntry,
     [BaseEntry EXCEPT !.name = Some("star"), !.repository = Some("feather"),
                       !.tsxTransform = Some(TRUE)],
     [BaseEntry EXCEPT !.repository = Some("unknown-repo")],
     [BaseEntry EXCEPT !.repository = None],
     [BaseEntry EXCEPT !.name = None, !.saveAs = Some("no-name")]}

CliConfigs ==
    {[repository |-> None, output |-> Some("./icons"), icons |-> l] :
        l \in {None} \cup {Some(x) : x \in IconLists(CliEntries, MaxCliIcons)}}

Init ==
    /\ config \in {Some(c) : c \in CliConfigs}
    /\ verbose \in BOOLEAN
    /\ pc = "start"
    /\ loaded = None
    /\ SanIdle /\ UrlIdle /\ IconIdle

\* The load throws: the catch shows the error, and nothing else happens.
MainLoadFails ==
    /\ pc = "start"
    /\ LET result == loadAndParseIconInputsFromFile(Get(config))
       IN /\ ~result.ok
          /\ loaded' = Some(result)
          /\ console' = console \o LoadPrints(Get(config))
                                \o ShowError(TRUE, result.error)
    /\ pc' = "exited"
    /\ UNCHANGED <<config, verbose, icons, tasks, httpGets, fs, dirs, writes>>
    /\ UNCHANGED <<sanVars, urlVars>>

\* The load returns: icons.forEach starts download() on every descriptor, in
\* order, each running up to its fetch.
MainDispatch ==
    /\ pc = "start"
    /\ LET result == loadAndParseIconInputsFromFile(Get(config))
       IN /\ result.ok
          /\ loaded' = Some(result)
          /\ icons' = result.icons
          /\ LET started == [i \in 1..Len(result.icons) |->
                                StartGrab(result.icons[i], i, "download", TRUE)]
             IN /\ tasks' = started
                /\ httpGets' = Requested(started, 1)
    /\ pc' = "running"
    /\ UNCHANGED <<config, verbose, fs, dirs, writes, console>>
    /\ UNCHANGED <<sanVars, urlVars>>

Next ==
    \/ MainLoadFails
    \/ MainDispatch
    \/ \E t \in Running : FetchOk(t)
    \/ \E t \in Running : FetchNotOk(t)
    \/ \E t \in Running : FetchRejects(t)
    \/ \E t \in Running : BodyArrives(t)
    \/ \E t \in Running : Transform(t)
    \/ \E t \in Running : SaveToFile(t)
    \/ \E t \in Running : MkdirDone(t)
    \/ \E t \in Running : WriteDone(t)
    \/ \E t \in Running : WriteFails(t)

Spec == Init /\ [][Next]_vars

-----------------------------------------------------------------------------
(* SpecSave: direct calls of saveToFile() on one descriptor, as the          *)
(* saveToFile tests make them, on a file system that is empty or already    *)
(* holds both target files                                                  *)

MaxSaves == 2

SaveIcons ==
    {[NewIconInput([output |-> "./icons", name |-> "test-tsx",
                    filename |-> "test-tsx", variant |-> Some("outline"),
                    size |-> None, repository |-> Heroicons, overwrite |-> o,
                    tsxTransform |-> Some(x)])
         EXCEPT !.svgText = text] :
        o \in {None, Some(FALSE), Some(TRUE)}, x \in BOOLEAN,
        text \in {None, Some(""), Some(SvgPlain), Some(SvgSized)}}

\* Both target files, left by an earlier run.
OldFiles ==
    [p \in {"./icons/test-tsx.svg", "./icons/test-tsx.tsx"} |-> "old"]

InitSave ==
    /\ icons \in {<<icon>> : icon \in SaveIcons}
    /\ tasks = <<>>
    /\ httpGets = <<>>
    /\ fs \in {NoFiles, OldFiles}
    /\ dirs = IF fs = NoFiles THEN {} ELSE {"./icons"}
    /\ writes = 0
    /\ console = <<>>
    /\ config = None /\ verbose = FALSE /\ pc = "save" /\ loaded = None
    /\ SanIdle /\ UrlIdle

\* saveToFile() up to its first await, called on icon i: it throws when
\* there is no SVG text, and calls mkdir otherwise.
StartSave(icon, i) ==
    [icon |-> i, op |-> "saveToFile", cli |-> FALSE,
     pc |-> IF Truthy(icon.svgText) THEN "mkdir" ELSE "failed",
     requested |-> "", body |-> "",
     path |-> IF Truthy(icon.svgText) THEN FilePath(icon) ELSE "",
     content |-> "",
     error |-> IF Truthy(icon.svgText) THEN "" ELSE NotDownloaded(icon),
     gets |-> 0, logs |-> 0, textAtCall |-> icon.svgText,
     response |-> "", status |-> 0, statusText |-> ""]

CallSaveToFile ==
    /\ pc = "save"
    /\ Len(tasks) < MaxSaves
    /\ \E i \in 1..Len(icons) : tasks' = Append(tasks, StartSave(icons[i], i))
    /\ UNCHANGED <<icons, httpGets, fs, dirs, writes, console>>
    /\ UNCHANGED <<sanVars, urlVars, loadVars>>

NextSave ==
    \/ CallSaveToFile
    \/ \E t \in Running : MkdirDone(t)
    \/ \E t \in Running : WriteDone(t)
    \/ \E t \in Running : WriteFails(t)

SpecSave == InitSave /\ [][NextSave]_vars

-----------------------------------------------------------------------------
(* SpecTsx: transform() on a descriptor with tsxTransform set, over SVG     *)
(* texts put together from a declaration, attributes of the root tag and    *)
(* child elements                                                           *)

MaxRootAttrs == 2
MaxChildren == 1

XmlDeclarations == {"", "<?xml version=\"1.0\" encoding=\"UTF-8\"?>"}

RootAttributes ==
    {" width=\"24\"", " height=\"24\"", " class=\"icon\"",
     " stroke-width=\"2\"", " aria-label=\"a>b\""}

ChildElements ==
    {"<path stroke-linecap=\"round\" fill-rule=\"evenodd\" d=\"M0 0\"/>",
     "<rect width=\"10\" height=\"10\"/>",
     "<text>stroke-width</text>",
     "<text>stroke-class=\"a\"width</text>"}

SvgTexts ==
    {decl \o "<svg" \o attrs \o ">" \o children \o "</svg>" :
        decl \in XmlDeclarations,
        attrs \in StringsUpTo(RootAttributes, MaxRootAttrs),
        children \in StringsUpTo(ChildElements, MaxChildren)}

TsxFilenames == {"test-tsx", "bootstrap-heart"}

\* Every text under the filename of the tests, and two texts under the other.
TsxIcons ==
    {[NewIconInput([output |-> "./icons", name |-> "test-tsx",
                    filename |-> pair[1], variant |-> Some("outline"),
                    size |-> None, repository |-> Heroicons, overwrite |-> None,
                    tsxTransform |-> Some(TRUE)])
         EXCEPT !.svgText = Some(pair[2])] :
        pair \in ({"test-tsx"} \X SvgTexts)
                    \cup (TsxFilenames \X {SvgPlain, SvgSized})}

InitTsx ==
    /\ icons \in {<<icon>> : icon \in TsxIcons}
    /\ tasks = <<>>
    /\ httpGets = <<>>
    /\ fs = NoFiles
    /\ dirs = {}
    /\ writes = 0
    /\ console = <<>>
    /\ config = None /\ verbose = FALSE /\ pc = "tsx" /\ loaded = None
    /\ SanIdle /\ UrlIdle

\* Faulty variant: the flag is read before the text, so that a descriptor
\* without tsxTransform is left alone whether it has text or not.
StartTransformFlagFirst(icon, i) ==
    LET fails == icon.tsxTransform /\ ~Truthy(icon.svgText)
    IN [icon |-> i, op |-> "transform", cli |-> FALSE,
        pc |-> IF fails THEN "failed" ELSE "done",
        requested |-> "", body |-> "", path |-> "", content |-> "",
        error |-> IF fails THEN NotDownloaded(icon) ELSE "",
        gets |-> 0, logs |-> 0, textAtCall |-> icon.svgText,
        response |-> "", status |-> 0, statusText |-> ""]

\* transform(), called on icon i: it throws when there is no SVG text, and
\* has returned otherwise.
StartTransform(icon, i) ==
    [icon |-> i, op |-> "transform", cli |-> FALSE,
     pc |-> IF Truthy(icon.svgText) THEN "done" ELSE "failed",
     requested |-> "", body |-> "", path |-> "", content |-> "",
     error |-> IF Truthy(icon.svgText) THEN "" ELSE NotDownloaded(icon),
     gets |-> 0, logs |-> 0, textAtCall |-> icon.svgText,
     response |-> "", status |-> 0, statusText |-> ""]

CallTransform ==
    /\ pc = "tsx"
    /\ tasks = <<>>
    /\ \E i \in 1..Len(icons) :
          /\ tasks' = <<StartTransform(icons[i], i)>>
          /\ icons' = IF Truthy(icons[i].svgText)
                      THEN [icons EXCEPT ![i] = transform(icons[i])]
                      ELSE icons
    /\ UNCHANGED <<httpGets, fs, dirs, writes, console>>
    /\ UNCHANGED <<sanVars, urlVars, loadVars>>

NextTsx == CallTransform

SpecTsx == InitTsx /\ [][NextTsx]_vars

-----------------------------------------------------------------------------
(* SpecDirect: direct calls of transform(), processSvgForReact() and        *)
(* saveToFile() on one descriptor that has SVG text or has none, made at    *)
(* any time                                                                 *)

MaxDirectCalls == 2

DirectNames == {"heart", "star"}

DirectIcons ==
    {[NewIconInput([output |-> "./icons", name |-> n,
                    filename |-> "test-tsx", variant |-> Some("outline"),
                    size |-> None, repository |-> Heroicons, overwrite |-> None,
                    tsxTransform |-> Some(x)])
         EXCEPT !.svgText = text] :
        n \in DirectNames, x \in BOOLEAN,
        text \in {None, Some(""), Some(SvgPlain)}}

InitDirect ==
    /\ icons \in {<<icon>> : icon \in DirectIcons}
    /\ tasks = <<>>
    /\ httpGets = <<>>
    /\ fs \in {NoFiles, OldFiles}
    /\ dirs = IF fs = NoFiles THEN {} ELSE {"./icons"}
    /\ writes = 0
    /\ console = <<>>
    /\ config = None /\ verbose = FALSE /\ pc = "direct" /\ loaded = None
    /\ SanIdle /\ UrlIdle

\* The error of processSvgForReact on a descriptor without SVG text.
NotAvailable(icon) == "SVG text is not available for icon " \o icon.name

\* processSvgForReact(componentName), called on icon i: it throws when there
\* is no SVG text, and has returned the component (content) otherwise.
StartProcess(icon, i, componentName) ==
    [icon |-> i, op |-> "processSvgForReact", cli |-> FALSE,
     pc |-> IF Truthy(icon.svgText) THEN "done" ELSE "failed",
     requested |-> "", body |-> "", path |-> "",
     content |-> IF Truthy(icon.svgText)
                 THEN processSvgForReact(icon, componentName) ELSE "",
     error |-> IF Truthy(icon.svgText) THEN "" ELSE NotAvailable(icon),
     gets |-> 0, logs |-> 0, textAtCall |-> icon.svgText,
     response |-> "", status |-> 0, statusText |-> ""]

DirectTransform ==
    /\ pc = "direct"
    /\ Len(tasks) < MaxDirectCalls
    /\ \E i \in 1..Len(icons) :
          /\ tasks' = Append(tasks, StartTransform(icons[i], i))
          /\ icons' = IF Truthy(icons[i].svgText)
                      THEN [icons EXCEPT ![i] = transform(icons[i])]
                      ELSE icons
    /\ UNCHANGED <<httpGets, fs, dirs, writes, console>>
    /\ UNCHANGED <<sanVars, urlVars, loadVars>>

DirectProcessSvgForReact ==
    /\ pc = "direct"
    /\ Len(tasks) < MaxDirectCalls
    /\ \E i \in 1..Len(icons), componentName \in {"TestTsx"} :
          tasks' = Append(tasks, StartProcess(icons[i], i, componentName))
    /\ UNCHANGED <<icons, httpGets, fs, dirs, writes, console>>
    /\ UNCHANGED <<sanVars, urlVars, loadVars>>

DirectSaveToFile ==
    /\ pc = "direct"
    /\ Len(tasks) < MaxDirectCalls
    /\ \E i \in 1..Len(icons) : tasks' = Append(tasks, StartSave(icons[i], i))
    /\ UNCHANGED <<icons, httpGets, fs, dirs, writes, console>>
    /\ UNCHANGED <<sanVars, urlVars, loadVars>>

NextDirect ==
    \/ DirectTransform
    \/ DirectProcessSvgForReact
    \/ DirectSaveToFile
    \/ \E t \in Running : MkdirDone(t)
    \/ \E t \in Running : WriteDone(t)
    \/ \E t \in Running : WriteFails(t)

SpecDirect == InitDirect /\ [][NextDirect]_vars

-----------------------------------------------------------------------------
(* SpecTwice: download() called on one descriptor again and again, each     *)
(* call made when the one before it has settled                             *)

MaxDownloads == 2

TwiceIcons ==
    {NewIconInput([output |-> "./icons", name |-> n,
                   filename |-> "test-tsx", variant |-> Some("outline"),
                   size |-> None, repository |-> Heroicons, overwrite |-> None,
                   tsxTransform |-> Some(x)]) :
        n \in DirectNames, x \in BOOLEAN}

InitTwice ==
    /\ icons \in {<<icon>> : icon \in TwiceIcons}
    /\ tasks = <<>>
    /\ httpGets = <<>>
    /\ fs = NoFiles
    /\ dirs = {}
    /\ writes = 0
    /\ console = <<>>
    /\ config = None /\ verbose = FALSE /\ pc = "twice" /\ loaded = None
    /\ SanIdle /\ UrlIdle

\* The call t has resolved or rejected.
Settled(t) == tasks[t].pc \in {"done", "failed"}

DownloadAgain ==
    /\ pc = "twice"
    /\ Len(tasks) < MaxDownloads
    /\ \A t \in Running : Settled(t)
    /\ \E i \in 1..Len(icons) :
          LET call == StartGrab(icons[i], i, "download", FALSE)
          IN /\ tasks' = Append(tasks, call)
             /\ httpGets' = httpGets \o Requested(<<call>>, 1)
    /\ UNCHANGED <<icons, fs, dirs, writes, console>>
    /\ UNCHANGED <<sanVars, urlVars, loadVars>>

NextTwice ==
    \/ DownloadAgain
    \/ \E t \in Running : FetchOk(t)
    \/ \E t \in Running : FetchNotOk(t)
    \/ \E t \in Running : FetchRejects(t)
    \/ \E t \in Running : BodyArrives(t)
    \/ \E t \in Running : Transform(t)
    \/ \E t \in Running : SaveToFile(t)
    \/ \E t \in Running : MkdirDone(t)
    \/ \E t \in Running : WriteDone(t)
    \/ \E t \in Running : WriteFails(t)

SpecTwice == InitTwice /\ [][NextTwice]_vars

-----------------------------------------------------------------------------
(* Claims about the loader (SpecLoad) *)

LoadedOk == IsSome(loaded) /\ Get(loaded).ok

\* A key counts as given when it is present with a non-empty string.
Given(o) == IsSome(o) /\ Get(o) # ""

\* Every icon has a name and a repository of the table, its own or, when it
\* has none, the top-level one; and some icon has none of its own.
C1Applies(data) ==
    /\ IsSome(data.icons)
    /\ IsSome(data.repository) /\ Get(data.repository) \in PresetNames
    /\ \A i \in 1..Len(Get(data.icons)) :
          /\ IsSome(Get(data.icons)[i].name)
          /\ IsSome(Get(data.icons)[i].repository) =>
                Get(Get(data.icons)[i].repository) \in PresetNames
    /\ \E i \in 1..Len(Get(data.icons)) : ~IsSome(Get(data.icons)[i].repository)

\* C1: when an icon entry omits `repository` and the top-level `repository`
\* names a preset, the load does not fail and the icon's descriptor is bound
\* to the top-level repository.
C1_GlobalRepositoryDefault ==
    (IsSome(loaded) /\ C1Applies(Get(config))) =>
        /\ Get(loaded).ok
        /\ Len(Get(loaded).icons) = Len(Get(Get(config).icons))
        /\ \A i \in 1..Len(Get(loaded).icons) :
              ~IsSome(Get(Get(config).icons)[i].repository) =>
                  Get(loaded).icons[i].repository.name = Get(Get(config).repository)

\* C3: a load that succeeds returns one descriptor per entry of `icons`, in
\* input order: descriptor i has the name, variant and size of entry i.
C3_OneDescriptorPerIconInOrder ==
    LoadedOk =>
        /\ Len(Get(loaded).icons) = Len(Get(Get(config).icons))
        /\ \A i \in 1..Len(Get(loaded).icons) :
              LET entry == Get(Get(config).icons)[i]
                  icon == Get(loaded).icons[i]
              IN /\ icon.name = Get(entry.name)
                 /\ icon.variant = entry.variant
                 /\ icon.size = entry.size

\* Two icons that differ in name, variant and size have been loaded.
C3_Witness ==
    /\ LoadedOk
    /\ Len(Get(loaded).icons) = 2
    /\ Get(loaded).icons[1].name = "Arrow_Right Icon!"
    /\ Get(loaded).icons[1].size = None
    /\ Get(loaded).icons[2].name = "home"
    /\ Get(loaded).icons[2].variant = Some("outline")
    /\ Get(loaded).icons[2].size = Some(24)

\* C4: a descriptor's output is its entry's `output` if given, else the
\* top-level `output` if given, else "."; so another entry's `output` has no
\* part in it.
C4_EffectiveOutput ==
    LoadedOk =>
        \A i \in 1..Len(Get(loaded).icons) :
            LET entry == Get(Get(config).icons)[i]
            IN Get(loaded).icons[i].output =
                  IF Given(entry.output) THEN Get(entry.output)
                  ELSE IF Given(Get(config).output) THEN Get(Get(config).output)
                  ELSE "."

\* Under a top-level output, one icon without an output and one with its own
\* have been loaded.
C4_Witness ==
    /\ LoadedOk
    /\ Get(config).output = Some("./global")
    /\ Len(Get(loaded).icons) = 2
    /\ Get(Get(config).icons)[1].output = None
    /\ Get(loaded).icons[1].output = "./global"
    /\ Get(loaded).icons[2].output = "./specific"

-----------------------------------------------------------------------------
(* Claims about santizeFilename (SpecSanitize) *)

\* C6: for every input string, santizeFilename returns a string made only of
\* the characters a-z, 0-9 and the hyphen: no uppercase letter, no
\* whitespace, no other character.
C6_SanitizedCharset ==
    IsSome(sanitized) =>
        \A i \in 1..Len(Get(sanitized)) :
            CharAt(Get(sanitized), i) \in
                {"a", "b", "c", "d", "e", "f", "g", "h", "i", "j", "k", "l", "m",
                 "n", "o", "p", "q", "r", "s", "t", "u", "v", "w", "x", "y", "z",
                 "0", "1", "2", "3", "4", "5", "6", "7", "8", "9", "-"}

\* An input with an uppercase letter, a tab and a special character has been
\* sanitized.
C6_Witness == rawFilename = "Z\t@" /\ sanitized = Some("z--")

-----------------------------------------------------------------------------
(* Claims about buildUrl (SpecUrl) *)

RECURSIVE C7DecimalValue(_)
C7DecimalValue(s) ==
    IF s = "" THEN 0
    ELSE 10 * C7DecimalValue(SubSeq(s, 1, Len(s) - 1))
         + ((CHOOSE d \in 1..10 : Digit[d] = CharAt(s, Len(s))) - 1)

\* Every placeholder of the template replaced, in one pass from the left.
RECURSIVE C7Substitute(_, _, _, _, _)
C7Substitute(template, i, variantText, sizeText, nameText) ==
    IF i > Len(template) THEN ""
    ELSE IF MatchesAt(template, "{variant}", i)
         THEN variantText \o C7Substitute(template, i + 9, variantText, sizeText, nameText)
    ELSE IF MatchesAt(template, "{size}", i)
         THEN sizeText \o C7Substitute(template, i + 6, variantText, sizeText, nameText)
    ELSE IF MatchesAt(template, "{iconName}", i)
         THEN nameText \o C7Substitute(template, i + 10, variantText, sizeText, nameText)
    ELSE CharAt(template, i)
         \o C7Substitute(template, i + 1, variantText, sizeText, nameText)

C7IsDecimalOf(text, n) ==
    /\ text # ""
    /\ \A i \in 1..Len(text) : CharAt(text, i) \in DigitSet
    /\ Len(text) > 1 => CharAt(text, 1) # "0"
    /\ C7DecimalValue(text) = n

\* C7: buildUrl returns https://raw.githubusercontent.com/{owner}/{repo}/
\* {branch}/{path}: branch is the repository's branch, or main when it has
\* none; path is the path template with {variant}, {size} and {iconName}
\* replaced by the variant (empty if absent), the size in decimal (empty if
\* absent) and the name.
C7_BuildUrl ==
    IsSome(url) =>
        LET icon == Get(urlIcon)
            r == icon.repository
            branch == IF IsSome(r.branch) THEN Get(r.branch) ELSE "main"
            variantText == IF IsSome(icon.variant) THEN Get(icon.variant) ELSE ""
        IN \E sizeText \in {SizeText(icon.size)} :
             /\ IF IsSome(icon.size) THEN C7IsDecimalOf(sizeText, Get(icon.size))
                ELSE sizeText = ""
             /\ Get(url) = "https://raw.githubusercontent.com/" \o r.owner \o "/"
                           \o r.repo \o "/" \o branch \o "/"
                           \o C7Substitute(r.pathTemplate, 1, variantText,
                                           sizeText, icon.name)

\* The URL of a sized icon from a repository with no branch has been built.
C7_Witness ==
    /\ IsSome(urlIcon)
    /\ Get(urlIcon).repository = SizedRepository
    /\ Get(urlIcon).size = Some(24)
    /\ Get(urlIcon).name = "arrow-right"
    /\ url = Some("https://raw.githubusercontent.com/test/test/main/icons/24/arrow-right.svg")

-----------------------------------------------------------------------------
(* Claims about a run of the CLI (Spec) *)

\* The input file fails the schema, or an icon names a repository that is
\* not in the preset table.
C2Applies(data) ==
    \/ ~Validate(data)
    \/ /\ IsSome(data.icons)
       /\ \E i \in 1..Len(Get(data.icons)) :
             /\ IsSome(Get(data.icons)[i].repository)
             /\ Get(Get(data.icons)[i].repository) \notin PresetNames

\* C2: if the input file fails schema validation, or an icon entry at any
\* position names a repository absent from the preset table, the load fails
\* with an error and returns no descriptor, and the run issues no HTTP GET
\* and writes no file.
C2_LoadFailureStopsRun ==
    C2Applies(Get(config)) =>
        /\ pc # "running"
        /\ icons = <<>>
        /\ tasks = <<>>
        /\ httpGets = <<>>
        /\ writes = 0
        /\ DOMAIN fs = {}
        /\ dirs = {}
        /\ pc = "exited" =>
              /\ IsSome(loaded)
              /\ ~Get(loaded).ok
              /\ Get(loaded).error # ""
              /\ Get(loaded).icons = <<>>

\* The run has ended on an input file whose second icon names an unknown
\* repository, after a first icon that is valid.
C2_Witness ==
    /\ pc = "exited"
    /\ IsSome(Get(config).icons)
    /\ Len(Get(Get(config).icons)) = 2
    /\ Get(Get(config).icons)[1] = BaseEntry
    /\ Get(Get(config).icons)[2].repository = Some("unknown-repo")
    /\ ~Get(loaded).ok

-----------------------------------------------------------------------------
(* Claims about calls on a descriptor (SpecApi) *)

\* The call made by this step, when the step is a call.
IsCall == Len(tasks') = Len(tasks) + 1

NewCall == tasks'[Len(tasks')]

\* C8: a call of grabSvgText, direct or from download, on a descriptor that
\* already has SVG text issues no HTTP GET and leaves the SVG text as it is,
\* at every such call.
C8_PopulatedNoFetch ==
    [][(IsCall /\ Truthy(icons[NewCall.icon].svgText)) =>
          /\ httpGets' = httpGets
          /\ icons' = icons
          /\ NewCall.gets = 0
          /\ NewCall.pc \in {"done", "grabbed"}]_vars

\* grabSvgText has been called twice on a descriptor that had SVG text.
C8_Witness ==
    /\ Len(tasks) = 2
    /\ \A t \in 1..2 :
          /\ tasks[t].op = "grabSvgText"
          /\ tasks[t].textAtCall = Some(SvgPlain)
          /\ tasks[t].pc = "done"

\* C9: whatever calls of grabSvgText and download are made on a descriptor,
\* and however they overlap, once a GET for it has succeeded no other GET is
\* issued for it: a GET that succeeded is the descriptor's only one.
C9_FetchedAtMostOnce ==
    \A i \in 1..Len(icons) :
        (\E t \in Running : tasks[t].icon = i /\ tasks[t].response = "ok") =>
            Cardinality({t \in Running : tasks[t].icon = i /\ tasks[t].gets > 0}) <= 1

\* C10: when the response is not ok, grabSvgText fails with an error that
\* names the icon, the URL, the status code and the status text; the error is
\* handed to logError once and thrown; one GET was issued and no other
\* follows; and the step leaves the descriptor's SVG text as it was, absent.
C10_NotOkFailsOnce ==
    /\ [](\A t \in Running :
            tasks[t].response = "notOk" =>
                /\ tasks[t].pc = "failed"
                /\ Includes(tasks[t].error, icons[tasks[t].icon].name)
                /\ Includes(tasks[t].error, tasks[t].requested)
                /\ Includes(tasks[t].error, NumberToString(tasks[t].status))
                /\ Includes(tasks[t].error, tasks[t].statusText)
                /\ tasks[t].requested = buildUrl(icons[tasks[t].icon])
                /\ tasks[t].logs = 1
                /\ tasks[t].gets = 1)
    /\ [][\A t \in Running :
            (tasks[t].response = "" /\ tasks'[t].response = "notOk") =>
                /\ icons' = icons
                /\ httpGets' = httpGets
                /\ console' = Append(console, <<"warn", tasks'[t].error>>)]_vars

\* A call of grabSvgText on a descriptor without SVG text has met a 404.
C10_Witness ==
    \E t \in Running :
        /\ tasks[t].op = "grabSvgText"
        /\ tasks[t].response = "notOk"
        /\ tasks[t].status = 404
        /\ tasks[t].textAtCall = None
        /\ icons[tasks[t].icon].svgText = None
        /\ tasks[t].error = "Failed to download icon test-tsx from "
              \o "https://raw.githubusercontent.com/tailwindlabs/heroicons/master/"
              \o "optimized/24/outline/test-tsx.svg: 404 Not Found"
        /\ console = << <<"warn", tasks[t].error>> >>

\* C11: when fetch rejects (a network error, no response), grabSvgText hands
\* the error to logError once and throws it to its caller, as it does for a
\* response that is not ok.
C11_RejectedFetchIsLogged ==
    \A t \in Running :
        tasks[t].response = "rejected" =>
            /\ tasks[t].pc = "failed"
            /\ tasks[t].error # ""
            /\ tasks[t].logs = 1
            /\ \E k \in 1..Len(console) : console[k] = <<"warn", tasks[t].error>>

\* A call of download() on a descriptor that had no SVG text has returned,
\* and no other call on the descriptor fetched.
C12Applies(t) ==
    /\ tasks[t].op = "download"
    /\ ~Truthy(tasks[t].textAtCall)
    /\ ~icons[tasks[t].icon].tsxTransform
    /\ tasks[t].pc = "done"
    /\ \A u \in Running \ {t} :
          tasks[u].icon = tasks[t].icon => tasks[u].gets = 0

\* C12: for a descriptor with tsxTransform false and no SVG text, a
\* download() that succeeds has issued exactly one GET, leaves the
\* descriptor's SVG text equal to the response body, and has written a file
\* whose content is that body.
C12_DownloadStoresBody ==
    \A t \in Running :
        C12Applies(t) =>
            /\ tasks[t].gets = 1
            /\ httpGets = <<buildUrl(icons[tasks[t].icon])>>
            /\ icons[tasks[t].icon].svgText = Some(tasks[t].body)
            /\ tasks[t].path \in DOMAIN fs
            /\ fs[tasks[t].path] = tasks[t].body
            /\ writes >= 1

\* download() alone has fetched SvgSized and written it.
C12_Witness ==
    /\ Len(tasks) = 1
    /\ C12Applies(1)
    /\ tasks[1].body = SvgSized
    /\ fs = [p \in {"./icons/test-tsx.svg"} |-> SvgSized]
    /\ writes = 1

-----------------------------------------------------------------------------
(* Claims about saveToFile (SpecSave) *)

SvgPath(icon) == icon.output \o "/" \o icon.filename \o ".svg"

TsxPath(icon) == icon.output \o "/" \o icon.filename \o ".tsx"

\* The calls of saveToFile whose writeFile has resolved.
Saved == {t \in Running : tasks[t].op = "saveToFile" /\ tasks[t].pc = "done"}

-----------------------------------------------------------------------------
(* Claims about the per-icon downloads of the CLI (Spec) *)

Ended(t) == tasks[t].pc \in {"done", "failed"}

\* The download t stands at one of its awaits, which resolves or rejects
\* whatever the other downloads do.
Awaiting(t) ==
    tasks[t].pc \in {"fetching", "reading", "grabbed", "transformed", "mkdir", "writing"}

\* C15: in a run of the CLI one download is started for every descriptor,
\* and the failure of a download (at fetch, transform or write) changes no
\* other download, no other descriptor and no file, and does not end the run:
\* every download that has not ended still stands at its own await, and one
\* that ends without failing has written its file.
C15_FailuresAreIsolated ==
    /\ [](pc = "running" =>
            /\ Len(tasks) = Len(icons)
            /\ \A t \in Running :
                  /\ tasks[t].icon = t
                  /\ tasks[t].op = "download"
                  /\ Ended(t) \/ Awaiting(t)
                  /\ tasks[t].pc = "done" => tasks[t].path \in DOMAIN fs)
    /\ [][\A t \in Running :
            (tasks[t].pc # "failed" /\ tasks'[t].pc = "failed") =>
                /\ pc' = "running"
                /\ fs' = fs
                /\ \A u \in Running \ {t} :
                      tasks'[u] = tasks[u] /\ icons'[u] = icons[u]]_vars

\* The first download has failed and the second has written its file.
C15_Witness ==
    /\ pc = "running"
    /\ Len(tasks) = 2
    /\ tasks[1].pc = "failed"
    /\ tasks[2].pc = "done"
    /\ tasks[2].path # tasks[1].path
    /\ DOMAIN fs = {tasks[2].path}

\* C16: without --verbose no failure of a download prints anything, whatever
\* its kind (status not ok, network error, transform or write error); with
\* --verbose the message of every failed download is printed.
C16_QuietUnlessVerbose ==
    pc = "running" =>
        /\ ~verbose => console = <<>>
        /\ verbose =>
              \A t \in Running :
                  tasks[t].pc = "failed" =>
                      \E k \in 1..Len(console) : console[k] = <<"error", tasks[t].error>>

-----------------------------------------------------------------------------
(* Claims about the TSX transformer (SpecTsx) *)

\* transform() has returned on descriptor 1.
Transformed == tasks # <<>> /\ tasks[1].op = "transform" /\ tasks[1].pc = "done"

\* The SVG text transform() was given, and the text it left on the descriptor.
TsxInput == Get(tasks[1].textAtCall)

TsxOutput == Get(icons[1].svgText)

\* C17: the component source generated for a descriptor with tsxTransform set
\* declares its default export under the name derived from the filename:
\* split on hyphens, each segment capitalized (test-tsx gives TestTsx).
C17_ComponentNamedAfterFilename ==
    Transformed =>
        /\ Includes(TsxOutput,
                    "export default function " \o ComponentName(icons[1].filename) \o "(")
        /\ icons[1].filename = "test-tsx" =>
              Includes(TsxOutput, "export default function TestTsx(")

\* The index of the ">" that ends the tag running through index i of s: the
\* first one from i on that stands outside a quoted attribute value; 0 when
\* there is none.
RECURSIVE TagEndFrom(_, _)
TagEndFrom(s, i) ==
    LET k == IndexOfCharIn(s, {">", "\""}, i)
        close == IndexOfCharIn(s, {"\""}, k + 1)
    IN IF k = 0 THEN 0
       ELSE IF CharAt(s, k) = ">" THEN k
       ELSE IF close = 0 THEN 0
       ELSE TagEndFrom(s, close + 1)

\* The opening tag of the root element of s, from "<svg" to its ">"; "" when
\* s has none.
RootTag(s) ==
    LET start == IndexOf(s, "<svg")
        end == IF start = 0 THEN 0 ELSE TagEndFrom(s, start + 4)
    IN IF end = 0 THEN "" ELSE SubSeq(s, start, end)

\* The text of s that follows the opening tag of its root element.
AfterRootTag(s) ==
    LET start == IndexOf(s, "<svg")
        end == IF start = 0 THEN 0 ELSE TagEndFrom(s, start + 4)
    IN IF end = 0 THEN "" ELSE SubSeq(s, end + 1, Len(s))

\* C18: for every SVG text given to the transformer, the output holds
\* <title>{title}</title> right after the opening tag of the root <svg>
\* element (white space apart), and {...rest} inside that tag.
C18_TitleAndRestOnRoot ==
    (Transformed /\ RootTag(TsxInput) # "") =>
        /\ Includes(RootTag(TsxOutput), "{...rest}")
        /\ \/ MatchesAt(AfterRootTag(TsxOutput), "<title>{title}</title>", 1)
           \/ MatchesAt(AfterRootTag(TsxOutput), "\n        <title>{title}</title>", 1)

\* C19: for every SVG text with a root <svg tag, the root tag of the output
\* carries width={width} and height={height}, whether the input's root tag
\* had the attribute (its value is replaced) or not (it is added), and no
\* quoted width or height value is left on the root tag.
C19_SizePropsOnRoot ==
    (Transformed /\ RootTag(TsxInput) # "") =>
        /\ Includes(RootTag(TsxOutput), " width={width}")
        /\ Includes(RootTag(TsxOutput), " height={height}")
        /\ ~Includes(RootTag(TsxOutput), " width=\"")
        /\ ~Includes(RootTag(TsxOutput), " height=\"")

\* The seven kebab-case tokens with their camelCase equivalents.
C20Pairs ==
    {<<"stroke-width", "strokeWidth">>, <<"stroke-linecap", "strokeLinecap">>,
     <<"stroke-linejoin", "strokeLinejoin">>, <<"fill-rule", "fillRule">>,
     <<"clip-rule", "clipRule">>, <<"fill-opacity", "fillOpacity">>,
     <<"stroke-opacity", "strokeOpacity">>}

\* The number of occurrences of pat in s.
Count(s, pat) == Cardinality({i \in 1..Len(s) : MatchesAt(s, pat, i)})

\* C20, as stated: after the TSX transform none of the seven kebab-case
\* tokens occurs anywhere in the output.
C20_NoKebabTokenLeft ==
    Transformed => \A pair \in C20Pairs : ~Includes(TsxOutput, pair[1])

\* C20, amended: every occurrence of a kebab-case token in the input text,
\* inside or outside an attribute position, is replaced by its camelCase
\* equivalent, and the markup right after that rewriting holds none of the
\* tokens; the output holds a token only when the input had a class="..."
\* attribute, whose later removal joined two pieces of text.
C20_InputTokensRewritten ==
    Transformed =>
        /\ \A pair \in C20Pairs :
              /\ Count(TsxOutput, pair[2])
                    = Count(TsxInput, pair[1]) + Count(TsxInput, pair[2])
              /\ ~Includes(ConvertAttributes(StripXmlDeclaration(TsxInput, 1), 1),
                           pair[1])
        /\ (\E pair \in C20Pairs : Includes(TsxOutput, pair[1])) =>
              Includes(TsxInput, "class=\"")

\* A text with stroke-width as an attribute of the root tag and as text of a
\* child has been transformed: both are rewritten.
C20_Witness ==
    /\ Transformed
    /\ TsxInput = "<svg stroke-width=\"2\"><text>stroke-width</text></svg>"
    /\ Count(TsxOutput, "strokeWidth") = 2
    /\ ~Includes(TsxOutput, "stroke-width")

-----------------------------------------------------------------------------
(* Claims about concurrent downloads of the CLI (Spec) *)

\* What the download t is to write: the body of its own response, as
\* transform() leaves it on its own descriptor.
OwnContent(t) ==
    Get(transform([icons[tasks[t].icon] EXCEPT !.svgText = Some(tasks[t].body)]).svgText)

\* No other download has the output path of the download t.
PathIsOwn(t) ==
    \A u \in Running \ {t} :
        FilePath(icons[tasks[u].icon]) # FilePath(icons[tasks[t].icon])

\* C21: descriptors share no state: a step of one download changes no field
\* of any other descriptor, and a download whose output path is its own
\* writes to its file the content fetched for its own descriptor, under
\* every interleaving.
C21_NoSharedState ==
    /\ [](\A t \in Running :
             (pc = "running" /\ tasks[t].pc = "done" /\ PathIsOwn(t)) =>
                 /\ tasks[t].path \in DOMAIN fs
                 /\ fs[tasks[t].path] = OwnContent(t)
                 /\ icons[tasks[t].icon].svgText = Some(OwnContent(t)))
    /\ [][\A t \in Running :
            (pc = "running" /\ tasks'[t] # tasks[t]) =>
                \A i \in 1..Len(icons) : i # tasks[t].icon => icons'[i] = icons[i]]_vars

\* Two downloads with different bodies have each written their own file, the
\* second one transformed.
C21_Witness ==
    /\ pc = "running"
    /\ Len(tasks) = 2
    /\ tasks[1].pc = "done" /\ tasks[2].pc = "done"
    /\ tasks[1].body = SvgSized /\ tasks[2].body = SvgPlain
    /\ icons[2].tsxTransform
    /\ DOMAIN fs = {"./icons/home.svg", "./icons/star.tsx"}
    /\ fs["./icons/home.svg"] = SvgSized
    /\ Includes(fs["./icons/star.tsx"], "viewBox=\"0 0 24 24\"")

\* The downloads t and u write to the same path, and both have succeeded.
SamePathDone(t, u) ==
    /\ t # u
    /\ tasks[t].pc = "done" /\ tasks[u].pc = "done"
    /\ tasks[t].path = tasks[u].path

\* C22: when two descriptors have the same output path and both downloads
\* succeed, no error is raised and nothing is printed, both writes have
\* happened, and the file holds the content of a download of that path that
\* has succeeded; each write, when it completes, leaves its own content in
\* the file, so the one that completes last decides.
C22_LastWriteWins ==
    /\ [](\A t, u \in Running :
             (pc = "running" /\ SamePathDone(t, u)) =>
                 /\ tasks[t].error = "" /\ tasks[u].error = ""
                 /\ writes >= 2
                 /\ \E w \in Running :
                       /\ tasks[w].pc = "done" /\ tasks[w].path = tasks[t].path
                       /\ fs[tasks[t].path] = tasks[w].content)
    /\ [][\A t \in Running :
            (pc = "running" /\ tasks[t].pc = "writing" /\ tasks'[t].pc # "failed"
               /\ tasks'[t] # tasks[t]) =>
                /\ tasks'[t].pc = "done"
                /\ fs'[tasks[t].path] = tasks[t].content
                /\ writes' = writes + 1]_vars

\* Two downloads of the same path with different bodies have both succeeded,
\* and the file holds the body of the one started first: its write came last.
C22_Witness ==
    /\ pc = "running"
    /\ Len(tasks) = 2
    /\ SamePathDone(1, 2)
    /\ tasks[1].content = SvgSized /\ tasks[2].content = SvgPlain
    /\ fs = [p \in {"./icons/home.svg"} |-> SvgSized]
    /\ writes = 2
    /\ console = <<>>

\* The fetch of the download t has failed.
FetchFailed(t) == tasks[t].response \in {"notOk", "rejected"}

\* The download t is at or past its write.
AtWrite(t) == tasks[t].pc \in {"mkdir", "writing", "done"}

\* C23: a download goes through fetch, transform and write in that order:
\* while it fetches its descriptor has no text and it has chosen no path; when
\* the fetch is over the descriptor holds the body; when the transform is
\* over and no path is chosen yet, the descriptor holds the component made
\* from the body if tsxTransform is set and the body otherwise; from then on
\* the descriptor's text does not change; a file changes only in a step that
\* completes the write of a download whose fetch was ok, and it receives the
\* descriptor's text.  A download whose fetch failed has failed, has left its
\* descriptor without text, and has chosen no path and no content.
C23_FetchTransformWrite ==
    /\ [](\A t \in Running :
            pc = "running" =>
              LET icon == icons[tasks[t].icon]
              IN /\ tasks[t].pc \in {"fetching", "reading"} =>
                       icon.svgText = None /\ tasks[t].path = ""
                 /\ tasks[t].pc = "grabbed" =>
                       /\ tasks[t].response = "ok"
                       /\ icon.svgText = Some(tasks[t].body)
                       /\ tasks[t].path = ""
                 /\ tasks[t].pc = "transformed" =>
                       /\ tasks[t].response = "ok"
                       /\ tasks[t].path = ""
                       /\ IF icon.tsxTransform
                          THEN /\ icon.svgText # Some(tasks[t].body)
                               /\ icon.svgText = Some(OwnContent(t))
                          ELSE icon.svgText = Some(tasks[t].body)
                 /\ AtWrite(t) =>
                       /\ tasks[t].response = "ok"
                       /\ tasks[t].path = FilePath(icon)
                       /\ icon.tsxTransform <=> icon.svgText # Some(tasks[t].body)
                 /\ FetchFailed(t) =>
                       /\ tasks[t].pc = "failed"
                       /\ icon.svgText = None
                       /\ tasks[t].path = "" /\ tasks[t].content = "")
    /\ [][\A t \in Running :
            (pc = "running" /\ (tasks[t].pc = "transformed" \/ AtWrite(t))) =>
                icons'[tasks[t].icon].svgText = icons[tasks[t].icon].svgText]_vars
    /\ [][(pc = "running" /\ (fs' # fs \/ writes' # writes)) =>
            \E t \in Running :
                /\ tasks[t].pc = "writing" /\ tasks'[t].pc = "done"
                /\ tasks[t].response = "ok"
                /\ Some(tasks[t].content) = icons[tasks[t].icon].svgText
                /\ fs' = [p \in DOMAIN fs \cup {tasks[t].path} |->
                             IF p = tasks[t].path THEN tasks[t].content
                             ELSE fs[p]]]_vars

\* A download with tsxTransform has written the component made from its
\* body, and the other download, whose fetch was not ok, has written nothing.
C23_Witness ==
    /\ pc = "running"
    /\ Len(tasks) = 2
    /\ tasks[1].response = "notOk" /\ tasks[1].pc = "failed"
    /\ tasks[2].pc = "done" /\ tasks[2].body = SvgPlain
    /\ icons[2].tsxTransform
    /\ DOMAIN fs = {"./icons/star.tsx"}
    /\ Includes(fs["./icons/star.tsx"], "export default function")
    /\ writes = 1

-----------------------------------------------------------------------------
(* Claims about direct calls on a descriptor without SVG text (SpecDirect) *)

\* The descriptor has no SVG text: it is undefined or the empty string.
TextAbsent(icon) == ~Truthy(icon.svgText)

\* The step is a call: one started call more.
Called == Len(tasks') = Len(tasks) + 1

\* C24: a call of transform, processSvgForReact or saveToFile on a descriptor
\* without SVG text has failed when it returns, with an error that holds the
\* descriptor's name, and the step changes no field of the descriptor, no
\* file and no directory; such a call never does anything later; and as long
\* as the descriptor has no text, the files and directories are those of the
\* start.
C24_FailsFastWithoutText ==
    /\ [][(pc = "direct" /\ Called /\ TextAbsent(icons[1])) =>
            LET call == tasks'[Len(tasks')]
            IN /\ call.op \in {"transform", "processSvgForReact", "saveToFile"}
               /\ call.pc = "failed"
               /\ Includes(call.error, icons[1].name)
               /\ call.path = "" /\ call.content = ""
               /\ icons' = icons
               /\ fs' = fs /\ dirs' = dirs /\ writes' = writes
               /\ httpGets' = httpGets]_vars
    /\ [](pc = "direct" =>
            /\ \A t \in Running :
                  ~Truthy(tasks[t].textAtCall) =>
                      tasks[t].pc = "failed" /\ tasks[t].path = ""
            /\ TextAbsent(icons[1]) =>
                  /\ writes = 0
                  /\ fs \in {NoFiles, OldFiles}
                  /\ dirs = IF fs = NoFiles THEN {} ELSE {"./icons"})

\* A descriptor without text and without tsxTransform has had transform and
\* saveToFile called on it: both failed naming it, and nothing was created.
C24_Witness ==
    /\ pc = "direct"
    /\ Len(tasks) = 2
    /\ icons[1].svgText = None /\ ~icons[1].tsxTransform /\ icons[1].name = "heart"
    /\ tasks[1].op = "transform" /\ tasks[2].op = "saveToFile"
    /\ tasks[1].error = "Icon data is not downloaded for heart"
    /\ tasks[2].error = "Icon data is not downloaded for heart"
    /\ fs = NoFiles /\ dirs = {}

-----------------------------------------------------------------------------
(* Claims about repeated downloads of one descriptor (SpecTwice) *)

\* The downloads t and u, u after t, have both succeeded.
BothSucceeded(t, u) ==
    /\ t < u
    /\ tasks[t].pc = "done" /\ tasks[u].pc = "done"

\* C25: download() is idempotent: when a download of a descriptor has
\* succeeded, a later download of it that succeeds has issued no GET and has
\* written the same file content, whether tsxTransform is set or not.
C25_DownloadIdempotent ==
    \A t, u \in Running :
        (pc = "twice" /\ BothSucceeded(t, u)) =>
            /\ tasks[u].gets = 0
            /\ tasks[u].path = tasks[t].path
            /\ tasks[u].content = tasks[t].content
            /\ fs[tasks[u].path] = tasks[t].content

====
